---- MODULE Spec2Model ----
(***************************************************************************)
(* Model of static/js/app.js, the form controller of the Al Adhwa lesson   *)
(* plan generator.  The state is the part of the DOM the script reads and  *)
(* writes (panel classes, form fields, progress text, download link), the  *)
(* requests in flight to the two endpoints, the running submit handlers    *)
(* with their interval timers and the open alert box.  Console output is   *)
(* write-only and is left out.  One action stands for every run-to-        *)
(* completion segment of a handler (the code between two awaits) and for   *)
(* every event of the environment (user input, timer, network).            *)
(***************************************************************************)
EXTENDS Integers, Sequences, FiniteSets, TLC

VARIABLES form, defaults, formHidden, loadingHidden, resultHidden,
          progressText, downloadHref, dateReqs, subs, alertOpen

vars == <<form, defaults, formHidden, loadingHidden, resultHidden,
          progressText, downloadHref, dateReqs, subs, alertOpen>>

(***************************************************************************)
(* Bounds of the model.                                                    *)
(***************************************************************************)
\* get-month-value requests that may be outstanding at once
MaxDateReqs == 2
\* submit handlers (with their timers) that may be alive at once
MaxSubs == 2
\* fields other than date and value the user leaves blank when filling the form
MaxBlank == 1

(***************************************************************************)
(* Values.                                                                 *)
(***************************************************************************)
\* absent property of a JSON object / null returned by FormData.get
Undef == "undefined"
\* no alert box is open (an open box holds the pieces of its text)
None == <<>>

\* new Date().toISOString().split('T')[0]
today == "d1"
Dates == {"d1", "d2"}
\* what the user can type into a text field or choose in a select
Txt == {"", "x"}
Urls == {"u1", "u2"}
ServerMessages == {Undef, "", "m1"}

\* the derived month value the server computes for a date
ServerValue(d) == IF d = "d1" THEN "v1" ELSE "v2"
Values == {ServerValue(d) : d \in Dates}

\* content of the progress text and of the download link in the served page
InitialProgressText == "initial"
InitialHref == "#"

progressSteps ==
    << "Analyzing lesson parameters...",
       "Generating HOT objectives...",
       "Creating engaging starter activity...",
       "Developing differentiated tasks...",
       "Integrating UAE/ADEK framework...",
       "Creating worksheets and rubrics...",
       "Building PowerPoint presentation...",
       "Packaging all files..." >>
FinalizingText == "Finalizing your package..."

RequiredAlert == << "Please fill in all required fields marked with *" >>
DefaultFailure == "Failed to generate lesson plan"
\* messages of the errors the runtime throws
NetworkErrorMessage == "Failed to fetch"
ParseErrorMessage == "Unexpected token in JSON"
TypeErrorMessage == "Cannot read properties of null"

\* 'Error generating lesson plan: ' + error.message + '\n\nPlease try again or contact support.'
ErrorAlert(message) ==
    << "Error generating lesson plan: ", message,
       "Please try again or contact support." >>

(***************************************************************************)
(* The form.  A form is a record of its eleven controls: text inputs and   *)
(* selects hold a string, the standards checkboxes hold the list of the    *)
(* checked values, gifted_talented holds whether the box is checked.       *)
(***************************************************************************)
OtherInputs ==
    [semester : Txt, grade : Txt, subject : Txt, topic : Txt, period : Txt,
     standards : {<<>>, <<"s1">>}, digital_platform : Txt,
     gifted_talented : BOOLEAN, ppt_style : Txt]

Blanks(r) ==
      (IF r.semester = "" THEN 1 ELSE 0) + (IF r.grade = "" THEN 1 ELSE 0)
    + (IF r.subject = "" THEN 1 ELSE 0) + (IF r.topic = "" THEN 1 ELSE 0)
    + (IF r.period = "" THEN 1 ELSE 0) + (IF r.standards = <<>> THEN 1 ELSE 0)
    + (IF r.digital_platform = "" THEN 1 ELSE 0)
    + (IF r.gifted_talented THEN 0 ELSE 1)
    + (IF r.ppt_style = "" THEN 1 ELSE 0)

\* what the user fills into the nine controls besides date and value
FormInputs == {r \in OtherInputs : Blanks(r) <= MaxBlank}

WithOthers(f, r) ==
    [date |-> f.date, value |-> f.value,
     semester |-> r.semester, grade |-> r.grade, subject |-> r.subject,
     topic |-> r.topic, period |-> r.period, standards |-> r.standards,
     digital_platform |-> r.digital_platform,
     gifted_talented |-> r.gifted_talented, ppt_style |-> r.ppt_style]

Others(f) ==
    [semester |-> f.semester, grade |-> f.grade, subject |-> f.subject,
     topic |-> f.topic, period |-> f.period, standards |-> f.standards,
     digital_platform |-> f.digital_platform,
     gifted_talented |-> f.gifted_talented, ppt_style |-> f.ppt_style]

\* default values of the controls in the served page: every control blank
BlankForm ==
    [date |-> "", value |-> "", semester |-> "", grade |-> "", subject |-> "",
     topic |-> "", period |-> "", standards |-> <<>>, digital_platform |-> "",
     gifted_talented |-> FALSE, ppt_style |-> ""]
DefaultForms == {BlankForm}

(***************************************************************************)
(* JavaScript truthiness of the strings that occur: undefined, null and    *)
(* the empty string are falsy.                                             *)
(***************************************************************************)
Truthy(v) == v \notin {Undef, ""}

\* FormData.get(name) of the checkbox: 'on' when checked, null otherwise
CheckboxEntry(checked) == IF checked THEN "on" ELSE Undef

\* the object built from new FormData(form)
CollectData(f) ==
    [date |-> f.date, semester |-> f.semester, grade |-> f.grade,
     subject |-> f.subject, topic |-> f.topic, period |-> f.period,
     value |-> f.value, standards |-> f.standards,
     digital_platform |-> f.digital_platform,
     gifted_talented |-> (CheckboxEntry(f.gifted_talented) = "on"),
     ppt_style |-> f.ppt_style]

\* variant: the period check is missing from the condition
MissingRequired_NoPeriod(data) ==
    \/ ~Truthy(data.date)
    \/ ~Truthy(data.semester)
    \/ ~Truthy(data.grade)
    \/ ~Truthy(data.subject)
    \/ ~Truthy(data.topic)

\* !data.date || !data.semester || !data.grade || !data.subject || !data.topic || !data.period
MissingRequired(data) ==
    \/ ~Truthy(data.date)
    \/ ~Truthy(data.semester)
    \/ ~Truthy(data.grade)
    \/ ~Truthy(data.subject)
    \/ ~Truthy(data.topic)
    \/ ~Truthy(data.period)

(***************************************************************************)
(* Responses of the two endpoints.                                         *)
(***************************************************************************)
\* bodies of /api/get-month-value for a request about date d: JSON null or
\* an object with an optional value and an optional error
MonthBodies(d) ==
    {[null |-> TRUE, value |-> Undef, error |-> Undef]} \cup
    [null : {FALSE}, value : {Undef, "", ServerValue(d)}, error : {Undef, "e"}]

\* bodies of /api/generate-lesson-plan: JSON null or an object with a
\* status, an optional message and a download_url
PlanBodies ==
    {[null |-> TRUE, status |-> Undef, message |-> Undef, download_url |-> "u1"]} \cup
    [null : {FALSE}, status : {"success", "error"},
     message : ServerMessages, download_url : Urls]

(***************************************************************************)
(* Running submit handlers.  Each is a record with its position (pc), the  *)
(* data it collected, the closure variable stepIndex, whether its interval *)
(* is still active and, once fetch resolved, response.ok.                  *)
(***************************************************************************)
Remove(s, i) == SubSeq(s, 1, i - 1) \o SubSeq(s, i + 1, Len(s))

\* the handler has returned; its record is dropped once its interval is cleared
Finish(s, i) ==
    IF s[i].timer THEN [s EXCEPT ![i].pc = "done"] ELSE Remove(s, i)

\* variant: the interval is never cleared
ClearInterval_Forgotten(s, i) == s

\* clearInterval(progressInterval); stepIndex is read by the interval callback
\* alone, so a cleared interval leaves it unreachable and it is dropped to 0
ClearInterval(s, i) == [s EXCEPT ![i].timer = FALSE, ![i].stepIndex = 0]

TotalDateReqs == dateReqs["d1"] + dateReqs["d2"]

\* user events reach a control only while its panel is displayed and no
\* alert box blocks the page; callbacks run only while no alert box is open
FormUsable == ~formHidden /\ alertOpen = None
ResultUsable == ~resultHidden /\ alertOpen = None

(***************************************************************************)
(* Initial state: the page after the DOMContentLoaded handler has run.     *)
(***************************************************************************)
Init ==
    /\ defaults \in DefaultForms
    /\ form = [defaults EXCEPT !.date = today]
    /\ formHidden = FALSE
    /\ loadingHidden = TRUE
    /\ resultHidden = TRUE
    /\ progressText = InitialProgressText
    /\ downloadHref = InitialHref
    /\ dateReqs = [d \in Dates |-> IF d = today THEN 1 ELSE 0]
    /\ subs = <<>>
    /\ alertOpen = None

(***************************************************************************)
(* dateInput 'change' handler.                                             *)
(***************************************************************************)
\* the user picks another date (or clears the field); the handler runs up
\* to its first await
DateChange(d) ==
    /\ FormUsable
    /\ d # form.date
    /\ form' = [form EXCEPT !.date = d]
    /\ IF ~Truthy(d)
         THEN UNCHANGED dateReqs
         ELSE /\ TotalDateReqs < MaxDateReqs
              /\ dateReqs' = [dateReqs EXCEPT ![d] = @ + 1]
    /\ UNCHANGED <<defaults, formHidden, loadingHidden, resultHidden,
                   progressText, downloadHref, subs, alertOpen>>

\* variant: the value of the body is written without looking at it
DateResponse_WritesAnyValue(d, body) ==
    /\ alertOpen = None
    /\ dateReqs[d] > 0
    /\ dateReqs' = [dateReqs EXCEPT ![d] = @ - 1]
    /\ IF ~body.null
         THEN form' = [form EXCEPT !.value = body.value]
         ELSE UNCHANGED form
    /\ UNCHANGED <<defaults, formHidden, loadingHidden, resultHidden,
                   progressText, downloadHref, subs, alertOpen>>

\* fetch and response.json() of a request about date d resolved with body:
\* a truthy value is written to the value field; an error, or a null body
\* (a TypeError, caught), only reaches console.error
DateResponse(d, body) ==
    /\ alertOpen = None
    /\ dateReqs[d] > 0
    /\ dateReqs' = [dateReqs EXCEPT ![d] = @ - 1]
    /\ IF ~body.null /\ Truthy(body.value)
         THEN form' = [form EXCEPT !.value = body.value]
         ELSE UNCHANGED form
    /\ UNCHANGED <<defaults, formHidden, loadingHidden, resultHidden,
                   progressText, downloadHref, subs, alertOpen>>

\* variant: the catch block of the date handler alerts
DateFailure_Alerts(d) ==
    /\ alertOpen = None
    /\ dateReqs[d] > 0
    /\ dateReqs' = [dateReqs EXCEPT ![d] = @ - 1]
    /\ alertOpen' = ErrorAlert(NetworkErrorMessage)
    /\ UNCHANGED <<form, defaults, formHidden, loadingHidden, resultHidden,
                   progressText, downloadHref, subs>>

\* fetch rejected (network error) or response.json() rejected (unparseable):
\* the catch block only calls console.error
DateFailure(d) ==
    /\ alertOpen = None
    /\ dateReqs[d] > 0
    /\ dateReqs' = [dateReqs EXCEPT ![d] = @ - 1]
    /\ UNCHANGED <<form, defaults, formHidden, loadingHidden, resultHidden,
                   progressText, downloadHref, subs, alertOpen>>

(***************************************************************************)
(* User input that no handler observes.                                    *)
(***************************************************************************)
EditValue(v) ==
    /\ FormUsable
    /\ v # form.value
    /\ form' = [form EXCEPT !.value = v]
    /\ UNCHANGED <<defaults, formHidden, loadingHidden, resultHidden,
                   progressText, downloadHref, dateReqs, subs, alertOpen>>

FillForm(r) ==
    /\ FormUsable
    /\ r # Others(form)
    /\ form' = WithOthers(form, r)
    /\ UNCHANGED <<defaults, formHidden, loadingHidden, resultHidden,
                   progressText, downloadHref, dateReqs, subs, alertOpen>>

(***************************************************************************)
(* form 'submit' handler.                                                  *)
(***************************************************************************)
\* variant: the loading panel is shown before the fields are validated
RejectSubmission_AfterLoading ==
    /\ alertOpen' = RequiredAlert
    /\ formHidden' = TRUE
    /\ loadingHidden' = FALSE
    /\ resultHidden' = TRUE
    /\ UNCHANGED subs

\* alert('Please fill in all required fields marked with *'); return;
RejectSubmission ==
    /\ alertOpen' = RequiredAlert
    /\ UNCHANGED <<formHidden, loadingHidden, resultHidden, subs>>

\* variant: the form is not hidden while loading
ShowLoading_KeepsForm ==
    /\ formHidden' = formHidden
    /\ loadingHidden' = FALSE
    /\ resultHidden' = TRUE

\* form.classList.add('hidden'); loadingDiv.classList.remove('hidden');
\* resultDiv.classList.add('hidden')
ShowLoading ==
    /\ formHidden' = TRUE
    /\ loadingHidden' = FALSE
    /\ resultHidden' = TRUE

\* the handler record of a submission suspended at await fetch(...), its
\* interval running and stepIndex at 0
NewSubmission(data) ==
    [pc |-> "fetch", data |-> data, stepIndex |-> 0, timer |-> TRUE,
     ok |-> FALSE]

\* validation fails: the alert opens and, once it is dismissed, the handler
\* returns
SubmitRejected ==
    /\ FormUsable
    /\ MissingRequired(CollectData(form))
    /\ RejectSubmission
    /\ UNCHANGED <<form, defaults, progressText, downloadHref, dateReqs>>

\* validation passes: show the loading panel, start the interval, send the
\* request and suspend at await fetch(...)
SubmitSent ==
    /\ FormUsable
    /\ ~MissingRequired(CollectData(form))
    /\ Len(subs) < MaxSubs
    /\ ShowLoading
    /\ subs' = Append(subs, NewSubmission(CollectData(form)))
    /\ UNCHANGED <<form, defaults, progressText, downloadHref, dateReqs,
                   alertOpen>>

\* variant: the messages rotate, the index wraps around after the last one
Tick_Rotates(i) ==
    /\ alertOpen = None
    /\ subs[i].timer
    /\ progressText' = progressSteps[(subs[i].stepIndex % Len(progressSteps)) + 1]
    /\ subs' = [subs EXCEPT ![i].stepIndex = (@ % Len(progressSteps)) + 1]
    /\ UNCHANGED <<form, defaults, formHidden, loadingHidden, resultHidden,
                   downloadHref, dateReqs, alertOpen>>

\* the interval callback of handler i
Tick(i) ==
    /\ alertOpen = None
    /\ subs[i].timer
    /\ IF subs[i].stepIndex < Len(progressSteps)
         THEN /\ progressText' = progressSteps[subs[i].stepIndex + 1]
              /\ subs' = [subs EXCEPT ![i].stepIndex = @ + 1]
         ELSE /\ progressText' = FinalizingText
              /\ UNCHANGED subs
    /\ UNCHANGED <<form, defaults, formHidden, loadingHidden, resultHidden,
                   downloadHref, dateReqs, alertOpen>>

\* the catch block up to the alert: clearInterval, alert(...)
Catch(i, message) ==
    /\ subs' = [ClearInterval(subs, i) EXCEPT ![i].pc = "alert"]
    /\ alertOpen' = ErrorAlert(message)
    /\ UNCHANGED <<form, defaults, formHidden, loadingHidden, resultHidden,
                   progressText, downloadHref, dateReqs>>

\* fetch resolved with a response: clearInterval, suspend at response.json()
FetchResolved(i, ok) ==
    /\ alertOpen = None
    /\ subs[i].pc = "fetch"
    /\ subs' = [ClearInterval(subs, i) EXCEPT ![i].pc = "json", ![i].ok = ok]
    /\ UNCHANGED <<form, defaults, formHidden, loadingHidden, resultHidden,
                   progressText, downloadHref, dateReqs, alertOpen>>

\* fetch rejected: network error
FetchRejected(i) ==
    /\ alertOpen = None
    /\ subs[i].pc = "fetch"
    /\ Catch(i, NetworkErrorMessage)

\* variant: response.ok is not looked at
IsSuccess_IgnoresOk(ok, result) == result.status = "success"

\* response.ok && result.status === 'success'
IsSuccess(ok, result) == ok /\ result.status = "success"

\* variant: the server's message is dropped
FailureMessage_AlwaysDefault(result) == DefaultFailure

\* result.message || 'Failed to generate lesson plan'
FailureMessage(result) ==
    IF Truthy(result.message) THEN result.message ELSE DefaultFailure

\* variant: the download link is not set
ShowSuccess_KeepsLink(i, result) ==
    /\ loadingHidden' = TRUE
    /\ resultHidden' = FALSE
    /\ subs' = Finish(subs, i)
    /\ UNCHANGED <<form, defaults, formHidden, progressText, downloadHref,
                   dateReqs, alertOpen>>

\* the success branch: swap the panels, set the download link
ShowSuccess(i, result) ==
    /\ loadingHidden' = TRUE
    /\ resultHidden' = FALSE
    /\ downloadHref' = result.download_url
    /\ subs' = Finish(subs, i)
    /\ UNCHANGED <<form, defaults, formHidden, progressText, dateReqs,
                   alertOpen>>

\* response.json() resolved with result
JsonResolved(i, result) ==
    /\ alertOpen = None
    /\ subs[i].pc = "json"
    /\ IF result.null
         THEN Catch(i, TypeErrorMessage)
         ELSE IF IsSuccess(subs[i].ok, result)
           THEN ShowSuccess(i, result)
           ELSE Catch(i, FailureMessage(result))

\* response.json() rejected: the body is not JSON
JsonRejected(i) ==
    /\ alertOpen = None
    /\ subs[i].pc = "json"
    /\ Catch(i, ParseErrorMessage)

\* variant: the catch block shows the form but leaves the loading panel up
DismissAlert_KeepsLoading ==
    /\ alertOpen # None
    /\ alertOpen' = None
    /\ IF \E i \in 1..Len(subs) : subs[i].pc = "alert"
         THEN LET i == CHOOSE j \in 1..Len(subs) : subs[j].pc = "alert" IN
              /\ formHidden' = FALSE
              /\ subs' = Finish(subs, i)
              /\ UNCHANGED loadingHidden
         ELSE UNCHANGED <<formHidden, loadingHidden, subs>>
    /\ UNCHANGED <<form, defaults, resultHidden, progressText, downloadHref,
                   dateReqs>>

\* variant: the catch block resets the form before showing it again
DismissAlert_ResetsForm ==
    /\ alertOpen # None
    /\ alertOpen' = None
    /\ IF \E i \in 1..Len(subs) : subs[i].pc = "alert"
         THEN LET i == CHOOSE j \in 1..Len(subs) : subs[j].pc = "alert" IN
              /\ loadingHidden' = TRUE
              /\ formHidden' = FALSE
              /\ subs' = Finish(subs, i)
              /\ form' = defaults
         ELSE UNCHANGED <<formHidden, loadingHidden, subs, form>>
    /\ UNCHANGED <<defaults, resultHidden, progressText, downloadHref,
                   dateReqs>>

\* the user dismisses the alert box; a handler blocked in its catch block
\* goes on: hide loading, show the form, console.error, return
DismissAlert ==
    /\ alertOpen # None
    /\ alertOpen' = None
    /\ IF \E i \in 1..Len(subs) : subs[i].pc = "alert"
         THEN LET i == CHOOSE j \in 1..Len(subs) : subs[j].pc = "alert" IN
              /\ loadingHidden' = TRUE
              /\ formHidden' = FALSE
              /\ subs' = Finish(subs, i)
         ELSE UNCHANGED <<formHidden, loadingHidden, subs>>
    /\ UNCHANGED <<form, defaults, resultHidden, progressText, downloadHref,
                   dateReqs>>

(***************************************************************************)
(* newPlanBtn 'click' handler.                                             *)
(***************************************************************************)
\* variant: the form is not reset
FormReset_Keeps(f) == f

\* form.reset(): every control back at its default value
FormReset(f) == defaults

NewPlanClick ==
    /\ ResultUsable
    /\ resultHidden' = TRUE
    /\ formHidden' = FALSE
    /\ form' = [FormReset(form) EXCEPT !.value = ""]
    /\ UNCHANGED <<defaults, loadingHidden, progressText, downloadHref,
                   dateReqs, subs, alertOpen>>

(***************************************************************************)
(* Specification.                                                          *)
(***************************************************************************)
Next ==
    \/ \E d \in Dates \cup {""} : DateChange(d)
    \/ \E d \in Dates : \E body \in MonthBodies(d) : DateResponse(d, body)
    \/ \E d \in Dates : DateFailure(d)
    \/ \E v \in Values \cup {""} : EditValue(v)
    \/ \E r \in FormInputs : FillForm(r)
    \/ SubmitRejected
    \/ SubmitSent
    \/ \E i \in 1..Len(subs) : Tick(i)
    \/ \E i \in 1..Len(subs) : \E ok \in BOOLEAN : FetchResolved(i, ok)
    \/ \E i \in 1..Len(subs) : FetchRejected(i)
    \/ \E i \in 1..Len(subs) : \E result \in PlanBodies : JsonResolved(i, result)
    \/ \E i \in 1..Len(subs) : JsonRejected(i)
    \/ DismissAlert
    \/ NewPlanClick

Spec == Init /\ [][Next]_vars

\* The same page used by a user who always picks a date in the date field
\* (never clears it) and leaves the value field to the auto-fill.
NextPicker ==
    \/ \E d \in Dates : DateChange(d)
    \/ \E d \in Dates : \E body \in MonthBodies(d) : DateResponse(d, body)
    \/ \E d \in Dates : DateFailure(d)
    \/ \E r \in FormInputs : FillForm(r)
    \/ SubmitRejected
    \/ SubmitSent
    \/ \E i \in 1..Len(subs) : Tick(i)
    \/ \E i \in 1..Len(subs) : \E ok \in BOOLEAN : FetchResolved(i, ok)
    \/ \E i \in 1..Len(subs) : FetchRejected(i)
    \/ \E i \in 1..Len(subs) : \E result \in PlanBodies : JsonResolved(i, result)
    \/ \E i \in 1..Len(subs) : JsonRejected(i)
    \/ DismissAlert
    \/ NewPlanClick

SpecPicker == Init /\ [][NextPicker]_vars

\* a pending generate-lesson-plan exchange settles: fetch resolves or
\* rejects, response.json() resolves or rejects
Settle ==
    \E i \in 1..Len(subs) :
        \/ \E ok \in BOOLEAN : FetchResolved(i, ok)
        \/ FetchRejected(i)
        \/ \E result \in PlanBodies : JsonResolved(i, result)
        \/ JsonRejected(i)

\* The page when every request to /api/generate-lesson-plan eventually
\* settles and every alert box is eventually dismissed (alert() returns).
SpecFair == Init /\ [][Next]_vars /\ WF_vars(Settle) /\ WF_vars(DismissAlert)

(***************************************************************************)
(* Vocabulary of the properties.                                           *)
(***************************************************************************)
Handlers == 1..Len(subs)

\* a generate-lesson-plan request is outstanding (sent, body not yet read)
PlanPending(i) == subs[i].pc \in {"fetch", "json"}

\* the six required entries of a payload are all present and non-empty
RequiredFilled(data) ==
    \A v \in {data.date, data.semester, data.grade, data.subject,
              data.topic, data.period} : v # "" /\ v # Undef

\* the response read by handler i is HTTP-ok with status 'success'
SuccessfulResponse(i, result) ==
    ~result.null /\ subs[i].ok /\ result.status = "success"

\* the alert box shows a generation error
ErrorAlertOpen == alertOpen # None /\ alertOpen # RequiredAlert

(***************************************************************************)
(* C1. Required-field validation blocks submission: no outstanding         *)
(* generate-lesson-plan request carries a payload in which date, semester, *)
(* grade, subject, topic or period is empty, and a submit of a form in     *)
(* which one of them is empty opens the 'fill in all required fields'      *)
(* alert and sends nothing.  The other five entries may be empty.          *)
(***************************************************************************)
C1_RequiredFieldsBlockSubmission ==
    /\ [](\A i \in Handlers : PlanPending(i) => RequiredFilled(subs[i].data))
    /\ [][ /\ (SubmitRejected \/ SubmitSent)
              /\ ~RequiredFilled(CollectData(form))
              => alertOpen' = RequiredAlert /\ subs' = subs ]_vars

\* a submit was rejected because only the period is missing
C1_Witness ==
    /\ alertOpen = RequiredAlert
    /\ subs = <<>>
    /\ form.period = ""
    /\ \A v \in {form.date, form.semester, form.grade, form.subject,
                 form.topic} : v # ""

(***************************************************************************)
(* C2. When a generate-lesson-plan response has been read, the result      *)
(* panel is revealed if and only if the response is HTTP-ok with status    *)
(* 'success'; then the loading panel is hidden, the form stays hidden and  *)
(* the download link is that response's download_url.  No other step       *)
(* reveals the result panel.                                               *)
(***************************************************************************)
C2_ResultRevealedIffSuccess ==
    /\ [][ \A i \in Handlers : subs[i].pc = "json" /\ subs' # subs =>
             \A result \in PlanBodies : JsonResolved(i, result) =>
               IF SuccessfulResponse(i, result)
                 THEN /\ ~resultHidden'
                      /\ loadingHidden'
                      /\ formHidden'
                      /\ downloadHref' = result.download_url
                 ELSE resultHidden' ]_vars
    /\ [][ resultHidden /\ ~resultHidden' =>
             \E i \in Handlers : \E result \in PlanBodies :
               JsonResolved(i, result) /\ SuccessfulResponse(i, result) ]_vars

\* a success response carrying u2 has been processed
C2_Witness ==
    /\ ~resultHidden
    /\ loadingHidden
    /\ formHidden
    /\ downloadHref = "u2"
    /\ subs = <<>>

C4_TimerCleared ==
    /\ [](\A i \in Handlers :
            subs[i].timer => subs[i].pc = "fetch" /\ formHidden /\ resultHidden)
    /\ [][ (\E i \in Handlers : Tick(i)) => formHidden /\ resultHidden ]_vars

\* a request has settled after the timer ticked, and its interval is cleared
C4_Witness ==
    \E i \in Handlers :
        subs[i].pc = "json" /\ ~subs[i].timer /\ progressText = progressSteps[2]

(***************************************************************************)
(* C5. After the 'Generate Another' click handler has run the result panel *)
(* is hidden, the form is visible, every form field is back at its         *)
(* default and the value field is empty.                                   *)
(***************************************************************************)
C5_ResetClearsForm ==
    [][ NewPlanClick =>
          /\ resultHidden'
          /\ ~formHidden'
          /\ \A name \in DOMAIN form : form'[name] = defaults[name]
          /\ form'.value = "" ]_vars

\* the form is back after a successful generation, cleared
C5_Witness ==
    /\ ~formHidden
    /\ resultHidden
    /\ downloadHref \in Urls
    /\ form = defaults
    /\ form.value = ""
    /\ progressText # InitialProgressText

(***************************************************************************)
(* C6. The reset handler restores the initial form state: the state right  *)
(* after the 'Generate Another' handler equals the state after the page's  *)
(* initialisation in panel visibility, date field, value field and pending *)
(* requests, that is, the date field holds today's date and one            *)
(* get-month-value request for it is in flight.                            *)
(***************************************************************************)
C6_ResetRestoresInitialState ==
    [][ NewPlanClick =>
          /\ ~formHidden' /\ loadingHidden' /\ resultHidden'
          /\ form'.date = today
          /\ form'.value = defaults.value
          /\ dateReqs' = [d \in Dates |-> IF d = today THEN 1 ELSE 0]
          /\ subs' = <<>> ]_vars

(***************************************************************************)
(* C7. The UI is the state machine idle -> loading -> success/error: in    *)
(* every reachable state exactly one of the form, loading and result       *)
(* panels is visible, and the visible panel changes only from form to      *)
(* loading (a valid submit), from loading to result (success), from        *)
(* loading to form (failure) and from result to form (reset).              *)
(***************************************************************************)
Visible == {p \in {"form", "loading", "result"} :
              \/ p = "form" /\ ~formHidden
              \/ p = "loading" /\ ~loadingHidden
              \/ p = "result" /\ ~resultHidden}

C7_PanelStateMachine ==
    /\ [](Cardinality(Visible) = 1)
    /\ [][ Visible' # Visible =>
             \/ Visible = {"form"} /\ Visible' = {"loading"} /\ SubmitSent
             \/ /\ Visible = {"loading"} /\ Visible' = {"result"}
                /\ \E i \in Handlers : \E result \in PlanBodies :
                     JsonResolved(i, result) /\ SuccessfulResponse(i, result)
             \/ /\ Visible = {"loading"} /\ Visible' = {"form"}
                /\ ErrorAlertOpen /\ DismissAlert
             \/ Visible = {"result"} /\ Visible' = {"form"} /\ NewPlanClick
          ]_vars

\* a second generation is loading after a first one succeeded and was reset
C7_Witness ==
    /\ Visible = {"loading"}
    /\ downloadHref \in Urls
    /\ Len(subs) = 1

(***************************************************************************)
(* C8. Every failed request raises an alert: whenever a request to         *)
(* /api/get-month-value or to /api/generate-lesson-plan fails (network     *)
(* error, unparseable body or error response), an alert is open            *)
(* afterwards.                                                             *)
(***************************************************************************)
\* a get-month-value request about d fails in this step
MonthValueFails(d) ==
    \/ DateFailure(d)
    \/ \E body \in MonthBodies(d) :
         /\ body.null \/ (~Truthy(body.value) /\ Truthy(body.error))
         /\ DateResponse(d, body)

\* the generate-lesson-plan request of handler i fails in this step
PlanFails(i) ==
    \/ FetchRejected(i)
    \/ JsonRejected(i)
    \/ \E result \in PlanBodies :
         ~SuccessfulResponse(i, result) /\ JsonResolved(i, result)

C8_EveryFailureAlerts ==
    [][ (\/ \E d \in Dates : dateReqs'[d] < dateReqs[d] /\ MonthValueFails(d)
         \/ \E i \in Handlers : subs' # subs /\ PlanFails(i))
        => alertOpen' # None ]_vars

\* C8 as amended: a failed generate-lesson-plan request opens an alert; a
\* failed get-month-value request opens none and changes nothing on the
\* page but the request being gone.
C8_OnlyPlanFailureAlerts ==
    [][ /\ (\E i \in Handlers : subs' # subs /\ PlanFails(i))
             => alertOpen = None /\ ErrorAlertOpen'
        /\ (\E d \in Dates : dateReqs'[d] < dateReqs[d] /\ MonthValueFails(d))
             => /\ alertOpen' = None
                /\ UNCHANGED <<form, formHidden, loadingHidden, resultHidden>>
      ]_vars

\* the date fetch of the initial page has failed silently while a
\* generation failure is on display
C8_Witness ==
    /\ ErrorAlertOpen
    /\ TotalDateReqs = 0
    /\ form.date = today
    /\ form.value = ""

(***************************************************************************)
(* C9. The two kinds of request are in flight only sequentially: in no     *)
(* reachable state are a get-month-value request and a                     *)
(* generate-lesson-plan request outstanding together.                      *)
(***************************************************************************)
C9_RequestsNeverOverlap ==
    ~(TotalDateReqs > 0 /\ \E i \in Handlers : subs[i].pc = "fetch")

\* C9 as amended: no get-month-value request is issued while a
\* generate-lesson-plan request is outstanding; a get-month-value request
\* issued before the submit may still be outstanding with it.
C9_NoDateFetchDuringGeneration ==
    [][ (\E i \in Handlers : PlanPending(i)) =>
          \A d \in Dates : dateReqs'[d] <= dateReqs[d] ]_vars

\* a date fetch issued before the submit is outstanding together with the
\* generation request
C9_Witness ==
    /\ TotalDateReqs > 0
    /\ \E i \in Handlers : subs[i].pc = "fetch"

(***************************************************************************)
(* C10. A submission rejected by validation changes nothing: the step that *)
(* opens the required-fields alert, and the step that dismisses it, leave  *)
(* the visibility of the three panels, the field contents, the download    *)
(* link and the progress text unchanged and start no timer.                *)
(***************************************************************************)
C10_RejectedSubmitChangesNothing ==
    [][ (alertOpen' = RequiredAlert \/ alertOpen = RequiredAlert) =>
          UNCHANGED <<formHidden, loadingHidden, resultHidden, form,
                      downloadHref, progressText, subs>> ]_vars

\* a submit is rejected on a page that has generated a plan before
C10_Witness ==
    /\ alertOpen = RequiredAlert
    /\ progressText = FinalizingText
    /\ downloadHref = "u1"
    /\ ~formHidden

(***************************************************************************)
(* C11. The date-change handler sends a get-month-value request only for   *)
(* a non-empty date, namely the one just selected; a settled request       *)
(* leaves the panel visibility unchanged and writes the value field only   *)
(* when its response carries a truthy value: an error response, a response *)
(* with neither value nor error, a null body and a network failure leave   *)
(* the form as it is.                                                      *)
(***************************************************************************)
C11_DateHandlerFrame ==
    [][ /\ \A d \in Dates : dateReqs'[d] > dateReqs[d] =>
              form'.date = d /\ form.date # d
        /\ (form'.date = "" /\ form.date # "") => dateReqs' = dateReqs
        /\ \A d \in Dates : dateReqs'[d] < dateReqs[d] =>
              /\ UNCHANGED <<formHidden, loadingHidden, resultHidden>>
              /\ form' # form =>
                   \E body \in MonthBodies(d) :
                     /\ ~body.null /\ body.value # Undef /\ body.value # ""
                     /\ form' = [form EXCEPT !.value = body.value]
              /\ \A body \in MonthBodies(d) :
                   /\ body.null \/ body.value = Undef \/ body.value = ""
                   /\ DateResponse(d, body)
                   => form' = form
              /\ DateFailure(d) => form' = form ]_vars

\* the response for the second date has filled the value field of a page
\* that has not generated anything yet
C11_Witness ==
    /\ form.date = "d2"
    /\ form.value = ServerValue("d2")
    /\ dateReqs["d2"] = 0
    /\ progressText = InitialProgressText
    /\ alertOpen = None

(***************************************************************************)
(* C12. While a generation request is pending the timer shows the eight    *)
(* progress messages in list order, one per tick, and on every tick after  *)
(* the eighth the 'Finalizing your package' message; the step index starts *)
(* at 0 for each submission, grows by one per message and never exceeds 8, *)
(* so no message is shown twice for one submission.                        *)
(***************************************************************************)
C12_ProgressMessagesInOrder ==
    /\ [](\A i \in Handlers : subs[i].stepIndex \in 0..8)
    /\ [][ Len(subs') > Len(subs) => subs'[Len(subs')].stepIndex = 0 ]_vars
    /\ [][ \A i \in Handlers :
             /\ subs[i].timer
             /\ Len(subs') = Len(subs)
             /\ subs'[i].timer
             /\ (progressText' # progressText \/ subs' # subs)
             => IF subs[i].stepIndex < 8
                  THEN /\ progressText' = progressSteps[subs[i].stepIndex + 1]
                       /\ subs'[i].stepIndex = subs[i].stepIndex + 1
                  ELSE /\ progressText' = FinalizingText
                       /\ subs' = subs ]_vars
    /\ \A j, k \in 1..8 : j # k => progressSteps[j] # progressSteps[k]

\* all eight messages have been shown and the finalizing message is up
C12_Witness ==
    \E i \in Handlers :
        /\ subs[i].timer
        /\ subs[i].stepIndex = 8
        /\ progressText = FinalizingText

(***************************************************************************)
(* C13. Absent manual edits of the value field, whenever no                *)
(* get-month-value request is in flight the value field is empty or holds  *)
(* the server's derived value for the date now in the date field, whatever *)
(* the order in which the responses arrive: the response for an earlier    *)
(* date never leaves its value in the field after a later date was picked. *)
(* Stated for SpecPicker, where only responses and the reset write the     *)
(* value field.                                                            *)
(***************************************************************************)
C13_ValueMatchesSelectedDate ==
    TotalDateReqs = 0 =>
        \/ form.value = ""
        \/ form.date \in Dates /\ form.value = ServerValue(form.date)

(***************************************************************************)
(* C14. Once the reset handler has cleared the value field it stays empty  *)
(* until the user next changes the date: no response to a request issued   *)
(* before the reset writes the field after it.  Stated for SpecPicker,     *)
(* where the date field is empty exactly from a reset to the next date     *)
(* change.                                                                 *)
(***************************************************************************)
C14_ValueStaysClearedAfterReset ==
    form.date = "" => form.value = ""

(***************************************************************************)
(* C15. In every reachable state at most one generate-lesson-plan request  *)
(* is outstanding and at most one progress interval is active (submits     *)
(* come from the visible form only, resets from the visible result panel   *)
(* only).                                                                  *)
(***************************************************************************)
C15_OneRequestOneTimer ==
    /\ Cardinality({i \in Handlers : PlanPending(i)}) <= 1
    /\ Cardinality({i \in Handlers : subs[i].timer}) <= 1

\* the request and the interval of a second generation are alive
C15_Witness ==
    /\ Len(subs) = 1
    /\ subs[1].pc = "fetch"
    /\ subs[1].timer
    /\ subs[1].stepIndex = 1
    /\ downloadHref \in Urls

(***************************************************************************)
(* C16. The download link is written on the success path only: every step  *)
(* that reveals the result panel or changes the link reads a successful    *)
(* response and leaves the link at that response's download_url.  Hence    *)
(* the link of a visible result panel is the download_url of the most      *)
(* recent successful response, and failures, validation rejections and     *)
(* the reset leave the link unchanged.                                     *)
(***************************************************************************)
C16_LinkIsLatestSuccess ==
    [][ (downloadHref' # downloadHref \/ (resultHidden /\ ~resultHidden')) =>
          \E i \in Handlers : \E result \in PlanBodies :
            /\ SuccessfulResponse(i, result)
            /\ JsonResolved(i, result)
            /\ downloadHref' = result.download_url ]_vars

\* a result panel showing the link of a generation that followed a failed
\* or earlier one on the same page
C16_Witness ==
    /\ ~resultHidden
    /\ downloadHref = "u1"
    /\ progressText = FinalizingText
    /\ form.value = ServerValue(form.date)

(***************************************************************************)
(* C17. A failed generation leaves the user's input intact: when the       *)
(* error alert is up and when the form is shown again, every form field,   *)
(* the value field included, holds what was collected at submit time, so   *)
(* a resubmission sends the same payload.                                  *)
(***************************************************************************)
C17_FailureKeepsPayload ==
    /\ [](\A i \in Handlers :
            subs[i].pc = "alert" => CollectData(form) = subs[i].data)
    /\ [][ ErrorAlertOpen /\ alertOpen' = None => form' = form ]_vars

\* C17 as amended: the failure path writes no form field and does not
\* reset the form: while a submission is under way and when the form is
\* shown again, every field other than value holds what was collected at
\* submit time, and the value field differs from it only because a
\* get-month-value response carrying a value arrived in between; a
\* resubmission sends the same payload up to that value.
C17_FailureKeepsUserInput ==
    /\ [](\A i \in Handlers :
            subs[i].pc \in {"fetch", "json", "alert"} =>
              [CollectData(form) EXCEPT !.value = subs[i].data.value]
                = subs[i].data)
    /\ [][ ErrorAlertOpen /\ alertOpen' = None => form' = form ]_vars
    /\ [][ Len(subs) > 0 /\ form' # form =>
             \E d \in Dates : \E body \in MonthBodies(d) :
               /\ ~body.null /\ body.value # Undef /\ body.value # ""
               /\ DateResponse(d, body)
               /\ form' = [form EXCEPT !.value = body.value] ]_vars

\* the error alert is up and the auto-fill has changed the value field
\* since the submit
C17_Witness ==
    \E i \in Handlers :
        /\ subs[i].pc = "alert"
        /\ ErrorAlertOpen
        /\ subs[i].data.value = ""
        /\ form.value = ServerValue(form.date)

====
